---------------------------- MODULE Spec2Model ----------------------------
(***************************************************************************)
(* A model of lj, the JSON log viewer (essentialkaos/lj, package cli).     *)
(*                                                                         *)
(* Strings are sequences of one-character strings, so that cutting,        *)
(* searching, replacing, number parsing and number formatting are          *)
(* computed character by character as the Go code computes them.           *)
(*                                                                         *)
(* A line of input is modelled after gjson.Parse: either a line that is    *)
(* not a JSON object (kept as its raw text), or a JSON object given as the *)
(* sequence of its members in source order.                                *)
(*                                                                         *)
(* The read loops readData and readDataStream read the bytes of a source   *)
(* that a writer appends to; a line read is parsed from its text.          *)
(***************************************************************************)
EXTENDS Integers, Sequences, FiniteSets, TLC

VARIABLES
    pc,          \* position of the program
    args,        \* raw filter tokens of the command line
    filters,     \* Filters built by parseFilters
    strictMode,  \* var strictMode (cli.go)
    highlights,  \* var highlights (cli.go)
    colors,      \* ~fmtc.DisableColors
    line,        \* the line handed to renderLine
    matched,     \* result of the last Filters.IsMatch call
    didRender,   \* result of the last renderLine call
    out,         \* what the last renderLine call wrote
    fields,      \* the []Field handed to renderFields
    packed,      \* the field lines renderFields wrote
    message,     \* the message handed to Highlights.Apply
    marked,      \* result of the last Highlights.Apply call
    follow,      \* options.GetB(OPT_FOLLOW)
    source,      \* the bytes written to the source so far
    pending,     \* the rest of the line the writer is in the middle of
    closed,      \* the writer has closed the source for good
    rpos,        \* number of bytes of the source the reader has consumed
    now,         \* time.Now(), in seconds
    lastPrint,   \* var lastPrint of readDataStream
    handed,      \* the texts handed to renderLine by the read loop, in order
    printed      \* what the read loop printed: records and separators

vars == <<pc, args, filters, strictMode, highlights, colors, line, matched,
          didRender, out, fields, packed, message, marked, follow, source,
          pending, closed, rpos, now, lastPrint, handed, printed>>

\* the state of the read loops
streamVars == <<follow, source, pending, closed, rpos, now, lastPrint, handed,
                printed>>

\* no source is read
NoStream ==
    /\ follow = FALSE
    /\ source = <<>>
    /\ pending = <<>>
    /\ closed = FALSE
    /\ rpos = 0
    /\ now = 0
    /\ lastPrint = 0
    /\ handed = <<>>
    /\ printed = <<>>

---------------------------------------------------------------------------
(* Bounds of the model *)

\* longest filter token
MaxTokLen == 4
\* most filter tokens on a command line
MaxArgs == 2
\* largest threshold of a numeric filter; fields range from 0 to one more
MaxNum == 2
\* most msg and log members of one object
MaxMsgKeys == 2
\* most fields handed to renderFields
MaxFields == 3
\* most terms of a highlight set, the longest term and the longest message
MaxTerms == 2
MaxTermLen == 2
MaxMsgLen == 3
\* terms of one highlight set, where terms may be characters of the markup
MaxMarkTerms == 2
\* lines written to the source
MaxLines == 2
\* the clock stops at MaxTime seconds
MaxTime == 62

---------------------------------------------------------------------------
(* Strings *)

\* every string over the alphabet A of length at most n
StringsUpTo(A, n) == UNION {[1..k -> A] : k \in 0..n}

\* s[i:]
From(s, i) == SubSeq(s, i, Len(s))

\* strings.Index for a one-character separator, 1-based, 0 when absent
Index(s, c) ==
    IF \E i \in 1..Len(s) : s[i] = c
    THEN CHOOSE i \in 1..Len(s) : s[i] = c /\ \A j \in 1..(i - 1) : s[j] # c
    ELSE 0

\* Cut, cutting at the last separator instead of the first
CutLast(s, c) ==
    IF \A i \in 1..Len(s) : s[i] # c
    THEN [before |-> s, after |-> <<>>, found |-> FALSE]
    ELSE LET i == CHOOSE i \in 1..Len(s) :
                      s[i] = c /\ \A j \in (i + 1)..Len(s) : s[j] # c
         IN  [before |-> SubSeq(s, 1, i - 1), after |-> From(s, i + 1),
              found |-> TRUE]

\* strings.Cut(s, c)
Cut(s, c) ==
    LET i == Index(s, c)
    IN  IF i = 0
        THEN [before |-> s, after |-> <<>>, found |-> FALSE]
        ELSE [before |-> SubSeq(s, 1, i - 1), after |-> From(s, i + 1),
              found |-> TRUE]

\* whether sub starts at 1-based position i of s
At(s, sub, i) == i + Len(sub) - 1 <= Len(s) /\ SubSeq(s, i, i + Len(sub) - 1) = sub

\* strings.Contains(s, sub)
Contains(s, sub) == \E i \in 1..(Len(s) + 1) : At(s, sub, i)

Digits == <<"0", "1", "2", "3", "4", "5", "6", "7", "8", "9">>

IsDigit(c) == \E d \in 1..10 : Digits[d] = c

DigitVal(c) == (CHOOSE d \in 1..10 : Digits[d] = c) - 1

RECURSIVE DecVal(_)
DecVal(s) == IF s = <<>> THEN 0
             ELSE 10 * DecVal(SubSeq(s, 1, Len(s) - 1)) + DigitVal(s[Len(s)])

AllDigits(s) == s # <<>> /\ \A i \in 1..Len(s) : IsDigit(s[i])

\* strconv.ParseFloat on signed decimal integers; every other text over the
\* alphabets used here is a syntax error, for which ParseFloat returns 0.
ParseFloat(s) ==
    IF AllDigits(s) THEN [val |-> DecVal(s), err |-> FALSE]
    ELSE IF s # <<>> /\ s[1] = "-" /\ AllDigits(Tail(s))
         THEN [val |-> 0 - DecVal(Tail(s)), err |-> FALSE]
    ELSE IF s # <<>> /\ s[1] = "+" /\ AllDigits(Tail(s))
         THEN [val |-> DecVal(Tail(s)), err |-> FALSE]
    ELSE [val |-> 0, err |-> TRUE]

RECURSIVE FormatNat(_)
FormatNat(n) == IF n < 10 THEN <<Digits[n + 1]>>
                ELSE FormatNat(n \div 10) \o <<Digits[(n % 10) + 1]>>

\* the text of an integer JSON number
FormatInt(n) == IF n < 0 THEN <<"-">> \o FormatNat(0 - n) ELSE FormatNat(n)

---------------------------------------------------------------------------
(* filter.go: the filter parser *)

COND_POSITIVE == 0
COND_NEGATIVE == 1
COND_CONTAINS == 2
COND_LESS == 3
COND_GREATER == 4

\* Filter.Value is `any`: a string or a float64
StrValue(s) == [isNum |-> FALSE, s |-> s, f |-> 0]
NumValue(f) == [isNum |-> TRUE, s |-> <<>>, f |-> f]

\* conditions[rune(c)]: the zero value COND_POSITIVE for a missing key
conditions(c) ==
    CASE c = "!" -> COND_NEGATIVE
      [] c = "~" -> COND_CONTAINS
      [] c = "<" -> COND_LESS
      [] c = ">" -> COND_GREATER
      [] OTHER   -> COND_POSITIVE

MsgKey == <<"m", "s", "g">>

\* parseFilter without the test for an empty key
parseFilterNoKeyTest(f) ==
    LET c == Cut(f, ":")
    IN  IF ~c.found \/ c.after = <<>>
        THEN [Key |-> MsgKey, Value |-> StrValue(f), Cond |-> COND_CONTAINS]
        ELSE LET cond  == conditions(c.after[1])
                 value == IF cond # COND_POSITIVE THEN Tail(c.after) ELSE c.after
             IN  IF cond = COND_GREATER \/ cond = COND_LESS
                 THEN [Key |-> c.before, Value |-> NumValue(ParseFloat(value).val),
                       Cond |-> cond]
                 ELSE [Key |-> c.before, Value |-> StrValue(value), Cond |-> cond]

\* parseFilter(f)
parseFilter(f) ==
    LET c == Cut(f, ":")
    IN  IF ~c.found \/ c.before = <<>> \/ c.after = <<>>
        THEN [Key |-> MsgKey, Value |-> StrValue(f), Cond |-> COND_CONTAINS]
        ELSE LET cond  == conditions(c.after[1])
                 value == IF cond # COND_POSITIVE THEN Tail(c.after) ELSE c.after
             IN  IF cond = COND_GREATER \/ cond = COND_LESS
                 THEN [Key |-> c.before, Value |-> NumValue(ParseFloat(value).val),
                       Cond |-> cond]
                 ELSE [Key |-> c.before, Value |-> StrValue(value), Cond |-> cond]

\* parseFilters, rejecting a token whose number does not parse
RECURSIVE parseFiltersStrict(_)
parseFiltersStrict(fs) ==
    IF fs = <<>> THEN <<>>
    ELSE LET c    == Cut(fs[Len(fs)], ":")
             rest == parseFiltersStrict(SubSeq(fs, 1, Len(fs) - 1))
             flt  == parseFilter(fs[Len(fs)])
         IN  IF flt.Cond \in {COND_LESS, COND_GREATER}
                /\ ParseFloat(Tail(c.after)).err
             THEN rest
             ELSE Append(rest, flt)

\* parseFilters: one parseFilter per token, appended in order
RECURSIVE parseFilters(_)
parseFilters(fs) ==
    IF fs = <<>> THEN <<>>
    ELSE Append(parseFilters(SubSeq(fs, 1, Len(fs) - 1)), parseFilter(fs[Len(fs)]))

---------------------------------------------------------------------------
(* gjson.Result, as far as the program reads it *)

\* the JSON value kinds of gjson.Type
JNull == "Null"
JFalse == "False"
JNumber == "Number"
JString == "String"
JTrue == "True"
JJSON == "JSON"

JStr(s) == [Type |-> JString, Str |-> s, Num |-> 0]
JNum(n) == [Type |-> JNumber, Str |-> <<>>, Num |-> n]
JBool(b) == [Type |-> IF b THEN JTrue ELSE JFalse, Str |-> <<>>, Num |-> 0]
JNil == [Type |-> JNull, Str |-> <<>>, Num |-> 0]
\* an array or an object value, kept as its raw text
JRaw(s) == [Type |-> JJSON, Str |-> s, Num |-> 0]

\* Result.String()
String(v) ==
    CASE v.Type = JString -> v.Str
      [] v.Type = JNumber -> FormatInt(v.Num)
      [] v.Type = JTrue   -> <<"t", "r", "u", "e">>
      [] v.Type = JFalse  -> <<"f", "a", "l", "s", "e">>
      [] v.Type = JJSON   -> v.Str
      [] OTHER            -> <<>>

\* Result.Float()
Float(v) ==
    CASE v.Type = JNumber -> v.Num
      [] v.Type = JString -> ParseFloat(v.Str).val
      [] v.Type = JTrue   -> 1
      [] OTHER            -> 0

\* Result.Map() of an object: whether the key is in the map
HasKey(members, key) == \E i \in 1..Len(members) : members[i].key = key

\* Result.Map() of an object: the value of a key (of its last member of that key)
Get(members, key) ==
    LET i == CHOOSE i \in 1..Len(members) :
                 /\ members[i].key = key
                 /\ \A j \in (i + 1)..Len(members) : members[j].key # key
    IN  members[i].val

---------------------------------------------------------------------------
(* filter.go: the predicate evaluator *)

\* Rejects, with a field equal to the threshold rejected
RejectsEqual(ff, jf) ==
    CASE ff.Cond = COND_POSITIVE -> ff.Value.s # String(jf)
      [] ff.Cond = COND_NEGATIVE -> ff.Value.s = String(jf)
      [] ff.Cond = COND_CONTAINS -> ~Contains(String(jf), ff.Value.s)
      [] ff.Cond = COND_GREATER  -> ff.Value.f >= Float(jf)
      [] ff.Cond = COND_LESS     -> ff.Value.f <= Float(jf)
      [] OTHER                   -> FALSE

\* Rejects, with the two comparisons the other way round
RejectsSwapped(ff, jf) ==
    CASE ff.Cond = COND_POSITIVE -> ff.Value.s # String(jf)
      [] ff.Cond = COND_NEGATIVE -> ff.Value.s = String(jf)
      [] ff.Cond = COND_CONTAINS -> ~Contains(String(jf), ff.Value.s)
      [] ff.Cond = COND_GREATER  -> ff.Value.f < Float(jf)
      [] ff.Cond = COND_LESS     -> ff.Value.f > Float(jf)
      [] OTHER                   -> FALSE

\* the switch of IsMatch: whether filter ff makes IsMatch return false on
\* field jf
Rejects(ff, jf) ==
    CASE ff.Cond = COND_POSITIVE -> ff.Value.s # String(jf)
      [] ff.Cond = COND_NEGATIVE -> ff.Value.s = String(jf)
      [] ff.Cond = COND_CONTAINS -> ~Contains(String(jf), ff.Value.s)
      [] ff.Cond = COND_GREATER  -> ff.Value.f > Float(jf)
      [] ff.Cond = COND_LESS     -> ff.Value.f < Float(jf)
      [] OTHER                   -> FALSE

\* IsMatchFrom, with a NEGATIVE filter passing a record without its key
RECURSIVE IsMatchFromAbsentPasses(_, _, _)
IsMatchFromAbsentPasses(f, i, members) ==
    IF i > Len(f) THEN TRUE
    ELSE IF ~HasKey(members, f[i].Key)
         THEN f[i].Cond = COND_NEGATIVE
              /\ IsMatchFromAbsentPasses(f, i + 1, members)
    ELSE IF Rejects(f[i], Get(members, f[i].Key)) THEN FALSE
    ELSE IsMatchFromAbsentPasses(f, i + 1, members)

\* the loop of IsMatch from filter i on
RECURSIVE IsMatchFrom(_, _, _)
IsMatchFrom(f, i, members) ==
    IF i > Len(f) THEN TRUE
    ELSE IF ~HasKey(members, f[i].Key) THEN FALSE
    ELSE IF Rejects(f[i], Get(members, f[i].Key)) THEN FALSE
    ELSE IsMatchFrom(f, i + 1, members)

\* Filters.IsMatch on the map of an object's members
IsMatch(f, members) ==
    IF Len(f) = 0 THEN TRUE ELSE IsMatchFrom(f, 1, members)

---------------------------------------------------------------------------
(* Highlights.Apply *)

\* strings.Index(s, sub), 1-based, 0 when sub does not occur
IndexOf(s, sub) ==
    IF \E i \in 1..(Len(s) + 1) : At(s, sub, i)
    THEN CHOOSE i \in 1..(Len(s) + 1) :
             At(s, sub, i) /\ \A j \in 1..(i - 1) : ~At(s, sub, j)
    ELSE 0

\* ReplaceAll, replacing the first occurrence only
ReplaceFirst(s, old, new) ==
    LET i == IndexOf(s, old)
    IN  IF i = 0 THEN s
        ELSE SubSeq(s, 1, i - 1) \o new \o From(s, i + Len(old))

\* strings.ReplaceAll(s, old, new): up to the next occurrence of old the text
\* is copied, the occurrence is replaced, and the search goes on behind it;
\* an empty old matches before every character and at the end
RECURSIVE ReplaceAll(_, _, _)
ReplaceAll(s, old, new) ==
    IF old = <<>>
    THEN new \o (IF s = <<>> THEN <<>>
                 ELSE <<s[1]>> \o ReplaceAll(Tail(s), old, new))
    ELSE LET i == IndexOf(s, old)
         IN  IF i = 0 THEN s
             ELSE SubSeq(s, 1, i - 1) \o new
                  \o ReplaceAll(From(s, i + Len(old)), old, new)

\* what fmtc makes of the tags {#112}{_} with colors on: 256-color
\* foreground 112, underline
MarkOpen == <<"ESC", "[", "3", "8", ";", "5", ";", "1", "1", "2", "m",
              "ESC", "[", "4", "m">>

\* what fmtc makes of the tag {!} with colors on: reset
MarkClose == <<"ESC", "[", "0", "m">>

\* fmtc.Sprint("{#112}{_}" + hh + "{!}"), for a term hh that holds no tag:
\* the tags become escape sequences, or nothing when colors are disabled
Emphasis(hh, withColors) ==
    IF withColors THEN MarkOpen \o hh \o MarkClose ELSE hh

\* the loop of Apply from term i on
RECURSIVE ApplyFrom(_, _, _, _, _)
ApplyFrom(h, i, msg, found, withColors) ==
    IF i > Len(h) THEN [msg |-> msg, found |-> found]
    ELSE IF Contains(msg, h[i])
         THEN ApplyFrom(h, i + 1, ReplaceAll(msg, h[i], Emphasis(h[i], withColors)),
                        TRUE, withColors)
    ELSE ApplyFrom(h, i + 1, msg, found, withColors)

\* Highlights.Apply(msg)
Apply(h, msg, withColors) == ApplyFrom(h, 1, msg, FALSE, withColors)

---------------------------------------------------------------------------
(* cli.go: fields and their packing *)

TYPE_UNKNOWN == 0
TYPE_STRING == 1
TYPE_NUMBER == 2
TYPE_BOOL == 3
TYPE_NIL == 4

\* the width budget of a field line in renderFields
LineBudget == 88

\* the width of the separator renderFields counts
SepWidth == 3

\* Field.Size()
Size(f) ==
    IF f.Type = TYPE_STRING
    THEN Len(f.Name) + Len(f.Value) + 3
    ELSE Len(f.Name) + Len(f.Value) + 1

\* the bytes.Buffer of renderFields: the fields and the separators written to it
EmptyBuf == [fs |-> <<>>, seps |-> 0]

\* one iteration of the loop of renderFields on field f, from the state
\* st = [lineLen, buf, lines]
PackStep(st, f) ==
    LET flush == st.lineLen > 0 /\ st.lineLen + Size(f) > LineBudget
        s1 == IF flush
              THEN [lineLen |-> 0, buf |-> EmptyBuf,
                    lines |-> Append(st.lines, st.buf)]
              ELSE st
        s2 == IF s1.lineLen > 0
              THEN [s1 EXCEPT !.buf.seps = @ + 1, !.lineLen = @ + SepWidth]
              ELSE s1
    IN  [s2 EXCEPT !.buf.fs = Append(@, f), !.lineLen = @ + Size(f)]

RECURSIVE PackFrom(_, _, _)
PackFrom(fs, i, st) ==
    IF i > Len(fs) THEN st ELSE PackFrom(fs, i + 1, PackStep(st, fs[i]))

\* renderFields: the lines it prints, each the content of the buffer
renderFields(fs) ==
    LET st == PackFrom(fs, 1, [lineLen |-> 0, buf |-> EmptyBuf, lines |-> <<>>])
    IN  IF st.buf # EmptyBuf THEN Append(st.lines, st.buf) ELSE st.lines

---------------------------------------------------------------------------
(* cli.go: renderLine *)

LogKey == <<"l", "o", "g">>
LevelKey == <<"l", "e", "v", "e", "l">>
CallerKey == <<"c", "a", "l", "l", "e", "r">>
TsKey == <<"t", "s">>

LDebug == <<"d", "e", "b", "u", "g">>
LInfo == <<"i", "n", "f", "o">>
LWarn == <<"w", "a", "r", "n">>
LError == <<"e", "r", "r", "o", "r">>
LFatal == <<"f", "a", "t", "a", "l">>

\* markerColors[level]: the zero value "" for a level that is no key
markerColors(level) ==
    CASE level = <<>>   -> "{s-}"
      [] level = LDebug -> "{s-}"
      [] level = LInfo  -> "{s-}"
      [] level = LWarn  -> "{#220}"
      [] level = LError -> "{#208}"
      [] level = LFatal -> "{#196}"
      [] OTHER          -> ""

\* textColors[level]
textColors(level) ==
    CASE level = LDebug -> "{s-}"
      [] level = LWarn  -> "{#220}"
      [] level = LError -> "{#208}"
      [] level = LFatal -> "{#196}"
      [] OTHER          -> ""

\* the badge printed for warn, error and fatal: labels[level], or none
labels(level) ==
    CASE level = LWarn  -> "WARN"
      [] level = LError -> "ERR"
      [] level = LFatal -> "CRIT"
      [] OTHER          -> ""

\* the marker color of a record with a highlighted message
MatchColor == "{#112}"

\* the marker color of a line that is not a JSON object
RawColor == "{#169}"

\* the indentation of field lines without a caller
BasePrefix == 26

\* the Field of a member that is no well-known key
ToField(key, v) ==
    CASE v.Type = JString ->
             [Name |-> key, Value |-> <<"\"">> \o v.Str \o <<"\"">>,
              Type |-> TYPE_STRING]
      [] v.Type \in {JFalse, JTrue} ->
             [Name |-> key, Value |-> String(v), Type |-> TYPE_BOOL]
      [] v.Type = JNull ->
             [Name |-> key, Value |-> <<"n", "i", "l">>, Type |-> TYPE_NIL]
      [] v.Type = JNumber ->
             [Name |-> key, Value |-> String(v), Type |-> TYPE_NUMBER]
      [] OTHER ->
             [Name |-> key, Value |-> v.Str, Type |-> TYPE_UNKNOWN]

NoRecord == [msg |-> <<>>, level |-> <<>>, caller |-> <<>>, ts |-> 0,
             fields |-> <<>>]

\* the callback of json.ForEach on one member
DecodeStep(rec, m) ==
    CASE m.key = MsgKey \/ m.key = LogKey -> [rec EXCEPT !.msg = String(m.val)]
      [] m.key = LevelKey  -> [rec EXCEPT !.level = String(m.val)]
      [] m.key = CallerKey -> [rec EXCEPT !.caller = String(m.val)]
      [] m.key = TsKey     -> [rec EXCEPT !.ts = Float(m.val)]
      [] OTHER -> [rec EXCEPT !.fields = Append(@, ToField(m.key, m.val))]

\* json.ForEach over the members in source order
RECURSIVE Decode(_)
Decode(members) ==
    IF members = <<>> THEN NoRecord
    ELSE DecodeStep(Decode(SubSeq(members, 1, Len(members) - 1)),
                    members[Len(members)])

\* a line that is not a JSON object, and a JSON object
RawLine(text) == [object |-> FALSE, raw |-> text, members |-> <<>>]
ObjLine(members) == [object |-> TRUE, raw |-> <<>>, members |-> members]

\* what renderLine prints for a line that is not a JSON object
Passthrough(text) == [kind |-> "raw", marker |-> RawColor, text |-> text]

\* what renderLine prints for a record: the header and the field lines.
\* The timestamp is kept as the number of seconds it is formatted from.
Rendered(rec, hl, withColors) ==
    LET hit == IF Len(hl) > 0 THEN Apply(hl, rec.msg, withColors)
               ELSE [msg |-> rec.msg, found |-> FALSE]
    IN  [kind   |-> "record",
         marker |-> IF hit.found THEN MatchColor ELSE markerColors(rec.level),
         ts     |-> rec.ts,
         badge  |-> labels(rec.level),
         caller |-> rec.caller,
         color  |-> textColors(rec.level),
         text   |-> hit.msg,
         prefix |-> IF rec.caller # <<>> THEN BasePrefix + Len(rec.caller) + 3
                    ELSE BasePrefix,
         lines  |-> IF Len(rec.fields) # 0 THEN renderFields(rec.fields)
                    ELSE <<>>]

\* renderLine, without the test for an empty message
renderLineNoMsgTest(ln, fltrs, strict, hl, withColors) ==
    IF ~ln.object
    THEN IF strict THEN [ret |-> FALSE, out |-> <<>>]
         ELSE [ret |-> TRUE, out |-> <<Passthrough(ln.raw)>>]
    ELSE LET rec == Decode(ln.members)
         IN  IF Len(fltrs) # 0 /\ ~IsMatch(fltrs, ln.members)
             THEN [ret |-> FALSE, out |-> <<>>]
             ELSE [ret |-> TRUE, out |-> <<Rendered(rec, hl, withColors)>>]

\* renderLine, with the highlights applied to a line that is no JSON object
renderLineMarkRaw(ln, fltrs, strict, hl, withColors) ==
    IF ~ln.object
    THEN IF strict THEN [ret |-> FALSE, out |-> <<>>]
         ELSE [ret |-> TRUE,
               out |-> <<Passthrough(Apply(hl, ln.raw, withColors).msg)>>]
    ELSE LET rec == Decode(ln.members)
         IN  IF rec.msg = <<>> THEN [ret |-> FALSE, out |-> <<>>]
             ELSE IF Len(fltrs) # 0 /\ ~IsMatch(fltrs, ln.members)
                  THEN [ret |-> FALSE, out |-> <<>>]
             ELSE [ret |-> TRUE, out |-> <<Rendered(rec, hl, withColors)>>]

\* renderLine, without the test of the filters
renderLineNoFilter(ln, fltrs, strict, hl, withColors) ==
    IF ~ln.object
    THEN IF strict THEN [ret |-> FALSE, out |-> <<>>]
         ELSE [ret |-> TRUE, out |-> <<Passthrough(ln.raw)>>]
    ELSE LET rec == Decode(ln.members)
         IN  IF rec.msg = <<>> THEN [ret |-> FALSE, out |-> <<>>]
             ELSE [ret |-> TRUE, out |-> <<Rendered(rec, hl, withColors)>>]

\* renderLine(line, filters): what it returns and what it prints
renderLine(ln, fltrs, strict, hl, withColors) ==
    IF ~ln.object
    THEN IF strict THEN [ret |-> FALSE, out |-> <<>>]
         ELSE [ret |-> TRUE, out |-> <<Passthrough(ln.raw)>>]
    ELSE LET rec == Decode(ln.members)
         IN  IF rec.msg = <<>> THEN [ret |-> FALSE, out |-> <<>>]
             ELSE IF Len(fltrs) # 0 /\ ~IsMatch(fltrs, ln.members)
                  THEN [ret |-> FALSE, out |-> <<>>]
             ELSE [ret |-> TRUE, out |-> <<Rendered(rec, hl, withColors)>>]

---------------------------------------------------------------------------
(* The program: process() parses the filter tokens, then every line read   *)
(* is handed to renderLine.  IsMatch, renderFields and Apply are also run  *)
(* on their own inputs.                                                    *)

NoMark == [msg |-> <<>>, found |-> FALSE]

\* process(): parseFilters(filters)
ParseArgs ==
    /\ pc = "start"
    /\ filters' = parseFilters(args)
    /\ pc' = "parsed"
    /\ UNCHANGED <<args, strictMode, highlights, colors, line, matched,
                   didRender, out, fields, packed, message, marked>>
    /\ UNCHANGED streamVars

\* filters.IsMatch(json.Map()) on the object of the line
Match ==
    /\ pc = "parsed"
    /\ line.object
    /\ matched' = IsMatch(filters, line.members)
    /\ pc' = "matched"
    /\ UNCHANGED <<args, filters, strictMode, highlights, colors, line,
                   didRender, out, fields, packed, message, marked>>
    /\ UNCHANGED streamVars

\* readData / readDataStream: renderLine(line, filters)
Render ==
    /\ pc = "parsed"
    /\ LET r == renderLine(line, filters, strictMode, highlights, colors)
       IN  didRender' = r.ret /\ out' = r.out
    /\ pc' = "rendered"
    /\ UNCHANGED <<args, filters, strictMode, highlights, colors, line,
                   matched, fields, packed, message, marked>>
    /\ UNCHANGED streamVars

\* renderFields(level, prefixSize, fields)
PackFields ==
    /\ pc = "fields"
    /\ packed' = renderFields(fields)
    /\ pc' = "packed"
    /\ UNCHANGED <<args, filters, strictMode, highlights, colors, line,
                   matched, didRender, out, fields, message, marked>>
    /\ UNCHANGED streamVars

\* highlights.Apply(msg)
Highlight ==
    /\ pc = "highlight"
    /\ marked' = Apply(highlights, message, colors)
    /\ pc' = "marked"
    /\ UNCHANGED <<args, filters, strictMode, highlights, colors, line,
                   matched, didRender, out, fields, packed, message>>
    /\ UNCHANGED streamVars

---------------------------------------------------------------------------
(* SpecParse: the filter parser on every token over TokChars *)

TokChars == {"k", ":", "!", "~", "<", ">", "1"}

Tokens == StringsUpTo(TokChars, MaxTokLen)

\* the tokens that may precede the last token of a command line
LeadTokens == {<<"k", ":", ">">>, <<"k">>}

\* the command lines: any token last, after fewer than MaxArgs lead tokens
ParseArgLists ==
    {<<>>} \cup
    {p \o <<t>> : p \in StringsUpTo(LeadTokens, MaxArgs - 1), t \in Tokens}

InitParse ==
    /\ pc = "start"
    /\ args \in ParseArgLists
    /\ filters = <<>>
    /\ strictMode = FALSE
    /\ highlights = <<>>
    /\ colors = TRUE
    /\ line = RawLine(<<>>)
    /\ matched = FALSE
    /\ didRender = FALSE
    /\ out = <<>>
    /\ fields = <<>>
    /\ packed = <<>>
    /\ message = <<>>
    /\ marked = NoMark
    /\ NoStream

NextParse == ParseArgs

SpecParse == InitParse /\ [][NextParse]_vars

---------------------------------------------------------------------------
(* Claims about the filter parser, checked under SpecParse *)

\* the position of the first ':' of token t is n
FirstColon(t, n) ==
    n \in 1..Len(t) /\ t[n] = ":" /\ \A j \in 1..(n - 1) : t[j] # ":"

\* t has no ':', or nothing before its first ':', or nothing after it
BareToken(t) ==
    \/ \A j \in 1..Len(t) : t[j] # ":"
    \/ FirstColon(t, 1)
    \/ FirstColon(t, Len(t))

\* the text before and after the first ':' of a token that is not bare
KeyPart(t) == SubSeq(t, 1, (CHOOSE n \in 1..Len(t) : FirstColon(t, n)) - 1)
RightPart(t) == From(t, (CHOOSE n \in 1..Len(t) : FirstColon(t, n)) + 1)

IsMarker(c) == c \in {"!", "~", "<", ">"}

\* the condition the marker table documents for the first character c
MarkerCond(c) ==
    IF c = "!" THEN COND_NEGATIVE
    ELSE IF c = "~" THEN COND_CONTAINS
    ELSE IF c = "<" THEN COND_LESS
    ELSE IF c = ">" THEN COND_GREATER
    ELSE COND_POSITIVE

\* the value text of a token that is not bare: the right part, less its marker
ValueText(t) ==
    IF IsMarker(RightPart(t)[1]) THEN Tail(RightPart(t)) ELSE RightPart(t)

\* a LESS or GREATER token
NumericToken(t) == ~BareToken(t) /\ RightPart(t)[1] \in {"<", ">"}

\* C4: once the tokens are parsed, every token without ':', or with nothing
\* before or nothing after its first ':', has become the filter
\* {Key "msg", Cond CONTAINS, Value the whole unmodified token}.
C4_BareTokenIsMsgContains ==
    pc = "parsed" =>
        /\ Len(filters) = Len(args)
        /\ \A i \in 1..Len(args) :
               BareToken(args[i]) =>
                   filters[i] = [Key |-> MsgKey, Value |-> StrValue(args[i]),
                                 Cond |-> COND_CONTAINS]

\* a parsed bare token that holds a ':' after a key, and one that holds a ':'
\* before a value
C4_Witness ==
    /\ pc = "parsed"
    /\ Len(args) = 2
    /\ args[1] = <<"k">>
    /\ args[2] = <<":", "k", ":">>
    /\ filters[2].Value = StrValue(<<":", "k", ":">>)

\* C5: once the tokens are parsed, every token with a non-empty key and a
\* non-empty right part around its first ':' has the text before that ':' as
\* key, the condition of the first character of the right part, and as value
\* the right part without the marker (a number for LESS and GREATER), or the
\* whole right part when there is no marker.
C5_KeyCondValue ==
    pc = "parsed" =>
        \A i \in 1..Len(args) :
            ~BareToken(args[i]) =>
                LET t == args[i]
                    c == RightPart(t)[1]
                IN  /\ i <= Len(filters)
                    /\ filters[i].Key = KeyPart(t)
                    /\ filters[i].Cond = MarkerCond(c)
                    /\ c \in {"!", "~"} =>
                           filters[i].Value = StrValue(Tail(RightPart(t)))
                    /\ c \in {"<", ">"} =>
                           /\ filters[i].Value.isNum
                           /\ AllDigits(Tail(RightPart(t))) =>
                                  FormatInt(filters[i].Value.f) = Tail(RightPart(t))
                    /\ ~IsMarker(c) => filters[i].Value = StrValue(RightPart(t))

\* a parsed token without marker whose value holds a further ':', after a
\* token with a marker whose value holds a further marker
C5_Witness ==
    /\ pc = "parsed"
    /\ args = << <<"k">>, <<"k", ":", "k", ":">> >>
    /\ filters[2] = [Key |-> <<"k">>, Value |-> StrValue(<<"k", ":">>),
                     Cond |-> COND_POSITIVE]

\* C6: once the tokens are parsed there is one filter per token, in token
\* order, and every LESS or GREATER token whose value text is not a number
\* (the empty text included) has become a filter of that key and condition
\* with the number 0.
C6_MalformedNumberIsZero ==
    pc = "parsed" =>
        /\ Len(filters) = Len(args)
        /\ \A i \in 1..Len(args) :
               (NumericToken(args[i]) /\ ~AllDigits(ValueText(args[i]))) =>
                   filters[i] = [Key |-> KeyPart(args[i]), Value |-> NumValue(0),
                                 Cond |-> MarkerCond(RightPart(args[i])[1])]

\* two parsed tokens: `k:>` with an empty value text and `k:<k` with a text
\* that is no number
C6_Witness ==
    /\ pc = "parsed"
    /\ args = << <<"k", ":", ">">>, <<"k", ":", "<", "k">> >>
    /\ filters[1].Value = NumValue(0)
    /\ filters[2] = [Key |-> <<"k">>, Value |-> NumValue(0), Cond |-> COND_LESS]

---------------------------------------------------------------------------
(* SpecMatch: filter lists against the objects of MatchLines *)

KKey == <<"k">>

\* the texts of the thresholds
Thresholds == {FormatInt(n) : n \in 1..MaxNum}

\* `k:>N`, `k:<N`, the three string conditions on "1", a NEGATIVE filter on
\* a key no object has, a bare token and a GREATER token without a number
MatchTokens ==
    {<<"k", ":", c>> \o n : c \in {"<", ">"}, n \in Thresholds} \cup
    {<<"k", ":", "1">>, <<"k", ":", "!", "1">>, <<"k", ":", "~", "1">>,
     <<"j", ":", "!", "1">>, <<"a">>, <<"k", ":", ">">>}

MatchArgLists == StringsUpTo(MatchTokens, MaxArgs)

\* the values of the field k
KValues ==
    {JNum(n) : n \in 0..(MaxNum + 1)} \cup {JStr(<<"1">>), JStr(<<"a">>)}

\* objects with or without a msg member and with or without a k member
MatchLines ==
    {ObjLine(m \o k) :
        m \in {<<>>} \cup {<<[key |-> MsgKey, val |-> JStr(t)]>> :
                              t \in {<<"a">>, <<"k">>}},
        k \in {<<>>} \cup {<<[key |-> KKey, val |-> v]>> : v \in KValues}}

InitMatch ==
    /\ pc = "start"
    /\ args \in MatchArgLists
    /\ filters = <<>>
    /\ strictMode = FALSE
    /\ highlights = <<>>
    /\ colors = TRUE
    /\ line \in MatchLines
    /\ matched = FALSE
    /\ didRender = FALSE
    /\ out = <<>>
    /\ fields = <<>>
    /\ packed = <<>>
    /\ message = <<>>
    /\ marked = NoMark
    /\ NoStream

NextMatch == ParseArgs \/ Match \/ Render

SpecMatch == InitMatch /\ [][NextMatch]_vars

---------------------------------------------------------------------------
(* Claims about the predicate evaluator, checked under SpecMatch *)

\* the list holds one filter, of condition cond, and the object has its key
OneFilter(cond) ==
    /\ Len(filters) = 1
    /\ filters[1].Cond = cond
    /\ HasKey(line.members, filters[1].Key)

\* the field the one filter reads, as a number
FieldNum == Float(Get(line.members, filters[1].Key))

\* C1, as the code has it: IsMatch of a list of one GREATER filter, on an
\* object that has the key, is true exactly when the stored value is not
\* greater than the field's number (the field is equal or greater); of one
\* LESS filter, exactly when the stored value is not less than the field's
\* number (the field is equal or less).
C1_GreaterLessAsCoded ==
    pc = "matched" =>
        /\ OneFilter(COND_GREATER) =>
               (matched <=> ~(filters[1].Value.f > FieldNum))
        /\ OneFilter(COND_LESS) =>
               (matched <=> ~(filters[1].Value.f < FieldNum))

\* a GREATER filter matched on a field equal to its value, not less
C1_Witness ==
    /\ pc = "matched"
    /\ OneFilter(COND_GREATER)
    /\ filters[1].Value.f = 1
    /\ FieldNum = 1
    /\ matched

\* C1 as claimed: a GREATER filter is satisfied exactly when the stored value
\* is greater than the field's number, a LESS filter exactly when it is less.
C1_AsClaimed ==
    pc = "matched" =>
        /\ OneFilter(COND_GREATER) =>
               (matched <=> filters[1].Value.f > FieldNum)
        /\ OneFilter(COND_LESS) =>
               (matched <=> filters[1].Value.f < FieldNum)

\* the number N of the single token `k:>N` or `k:<N` with marker c, if any
IsNumericArg(c, n) == args = << <<"k", ":", c>> \o FormatInt(n) >>

\* the object of the line has the field k and a message
HasFieldAndMessage ==
    /\ line.object
    /\ HasKey(line.members, KKey)
    /\ Decode(line.members).msg # <<>>

\* C2: with the single filter `k:>N`, a record that has the field k and a
\* message is rendered exactly when the number of k is equal to or greater
\* than N; with `k:<N`, exactly when it is equal to or less than N.
C2_UsageSemantics ==
    (pc = "rendered" /\ HasFieldAndMessage) =>
        \A n \in 0..(MaxNum + 1) :
            /\ IsNumericArg(">", n) =>
                   (didRender <=> Float(Get(line.members, KKey)) >= n)
            /\ IsNumericArg("<", n) =>
                   (didRender <=> Float(Get(line.members, KKey)) <= n)

\* a record whose field equals N, rendered under `k:<N`
C2_Witness ==
    /\ pc = "rendered"
    /\ HasFieldAndMessage
    /\ IsNumericArg("<", 2)
    /\ Get(line.members, KKey) = JNum(2)
    /\ didRender
    /\ Len(out) = 1

\* what the usage text documents for a filter on a field
CondHolds(ff, jf) ==
    IF ff.Cond = COND_POSITIVE THEN String(jf) = ff.Value.s
    ELSE IF ff.Cond = COND_NEGATIVE THEN String(jf) # ff.Value.s
    ELSE IF ff.Cond = COND_CONTAINS THEN Contains(String(jf), ff.Value.s)
    ELSE IF ff.Cond = COND_GREATER THEN Float(jf) >= ff.Value.f
    ELSE Float(jf) <= ff.Value.f

\* C3: IsMatch is true exactly when every filter of the list has its key in
\* the object and its condition holds for that field; so the empty list is
\* true for every object, and a filter whose key is absent makes it false
\* whatever its condition.
C3_Conjunction ==
    pc = "matched" =>
        (matched <=>
            \A i \in 1..Len(filters) :
                /\ HasKey(line.members, filters[i].Key)
                /\ CondHolds(filters[i], Get(line.members, filters[i].Key)))

\* a list whose first filter holds and whose second, NEGATIVE, filter names a
\* key the object lacks: no match
C3_Witness ==
    /\ pc = "matched"
    /\ args = << <<"k", ":", "1">>, <<"j", ":", "!", "1">> >>
    /\ HasKey(line.members, KKey)
    /\ CondHolds(filters[1], Get(line.members, KKey))
    /\ ~HasKey(line.members, filters[2].Key)
    /\ ~matched

---------------------------------------------------------------------------
(* SpecRender: renderLine on lines that are no JSON object and on objects  *)
(* with and without a message, under every setting                        *)

\* a bare token and an exact filter on the field k
RenderTokens == {<<"a">>, <<"k", ":", "1">>}

RenderArgLists == StringsUpTo(RenderTokens, MaxArgs)

\* the highlight sets of the -f option
RenderHighlights == {<<>>, << <<"a">> >>}

\* the texts of the lines that are no JSON object
RawTexts == {<<>>, <<"a">>, <<"b", "a">>}

\* the msg and log members an object may hold
MsgMembers ==
    {[key |-> MsgKey, val |-> JStr(<<"a">>)], [key |-> MsgKey, val |-> JStr(<<>>)],
     [key |-> LogKey, val |-> JStr(<<"b">>)], [key |-> LogKey, val |-> JNil],
     [key |-> LogKey, val |-> JStr(<<"a">>)]}

\* objects: msg and log members in any order, then maybe a level, a caller
\* and a field k
RenderObjects ==
    {ObjLine(m \o l \o c \o k) :
        m \in StringsUpTo(MsgMembers, MaxMsgKeys),
        l \in {<<>>, <<[key |-> LevelKey, val |-> JStr(LWarn)]>>},
        c \in {<<>>, <<[key |-> CallerKey, val |-> JStr(<<"c">>)]>>},
        k \in {<<>>, <<[key |-> KKey, val |-> JNum(1)]>>,
               <<[key |-> KKey, val |-> JStr(<<"a">>)]>>}}

RenderLines == {RawLine(t) : t \in RawTexts} \cup RenderObjects

InitRender ==
    /\ pc = "start"
    /\ args \in RenderArgLists
    /\ filters = <<>>
    /\ strictMode \in BOOLEAN
    /\ highlights \in RenderHighlights
    /\ colors \in BOOLEAN
    /\ line \in RenderLines
    /\ matched = FALSE
    /\ didRender = FALSE
    /\ out = <<>>
    /\ fields = <<>>
    /\ packed = <<>>
    /\ message = <<>>
    /\ marked = NoMark
    /\ NoStream

NextRender == ParseArgs \/ Render

SpecRender == InitRender /\ [][NextRender]_vars

---------------------------------------------------------------------------
(* Claims about renderLine, checked under SpecRender *)

\* the positions of the msg and log members
MsgPositions(members) ==
    {i \in 1..Len(members) : members[i].key \in {MsgKey, LogKey}}

\* the object has no msg or log member, or the text of its last one is empty
NoMessage(members) ==
    \/ MsgPositions(members) = {}
    \/ \E i \in MsgPositions(members) :
           /\ \A j \in MsgPositions(members) : j <= i
           /\ String(members[i].val) = <<>>

\* C7: a JSON object without a message is never rendered: renderLine returns
\* false and prints nothing, whatever the filters, the highlights and the
\* strict mode.
C7_NoMessageNotRendered ==
    (pc = "rendered" /\ line.object /\ NoMessage(line.members)) =>
        (~didRender /\ out = <<>>)

\* an object whose msg is overwritten by an empty log, dropped without filters
C7_Witness ==
    /\ pc = "rendered"
    /\ line.object
    /\ Len(line.members) >= 2
    /\ line.members[1] = [key |-> MsgKey, val |-> JStr(<<"a">>)]
    /\ line.members[2] = [key |-> LogKey, val |-> JNil]
    /\ args = <<>>
    /\ ~strictMode
    /\ ~didRender

BareTokenOnMessage ==
    /\ pc = "rendered"
    /\ line.object
    /\ ~NoMessage(line.members)
    /\ Len(args) = 1
    /\ BareToken(args[1])

\* C15 (amended): with one bare token as the only filter, an object with a
\* message is rendered exactly when it has a msg member and the text of its
\* last msg member contains the token; a log member is never searched, also
\* when it supplies the message that is displayed.
C15_BareTokenSearchesMsg ==
    BareTokenOnMessage =>
        (didRender <=> (/\ HasKey(line.members, MsgKey)
                        /\ Contains(String(Get(line.members, MsgKey)), args[1])))

\* a record whose message comes from log and holds the token, dropped
C15_Witness ==
    /\ BareTokenOnMessage
    /\ args = << <<"a">> >>
    /\ line.members = <<[key |-> LogKey, val |-> JStr(<<"a">>)]>>
    /\ ~didRender

\* C15 as claimed: with one bare token as the only filter, an object with a
\* message is rendered exactly when the message that is displayed (of the
\* last msg or log member) contains the token.
C15_AsClaimed ==
    BareTokenOnMessage =>
        (didRender <=> Contains(Decode(line.members).msg, args[1]))

---------------------------------------------------------------------------
(* SpecFields: renderFields on the fields of short and long members *)

\* a text of n characters
RECURSIVE Rep(_, _)
Rep(c, n) == IF n = 0 THEN <<>> ELSE <<c>> \o Rep(c, n - 1)

\* the lengths of the string values: fields of size 7, 43, 47 and 89
ValueLens == {1, 37, 41, 83}

\* the length of the array values: fields of size 43
ArrayLens == {41}

\* the members the fields are made of: a boolean, strings and arrays
FieldMembers ==
    {[key |-> k, val |-> JBool(TRUE)] : k \in {<<"f">>, <<"g">>}} \cup
    {[key |-> k, val |-> JStr(Rep("x", n))] :
        k \in {<<"f">>, <<"g">>}, n \in ValueLens} \cup
    {[key |-> k, val |-> JRaw(Rep("1", n))] :
        k \in {<<"f">>, <<"g">>}, n \in ArrayLens}

\* the []Field renderLine builds of up to MaxFields members
FieldLists ==
    {Decode(m).fields : m \in StringsUpTo(FieldMembers, MaxFields)}

InitFields ==
    /\ pc = "fields"
    /\ args = <<>>
    /\ filters = <<>>
    /\ strictMode = FALSE
    /\ highlights = <<>>
    /\ colors = TRUE
    /\ line = RawLine(<<>>)
    /\ matched = FALSE
    /\ didRender = FALSE
    /\ out = <<>>
    /\ fields \in FieldLists
    /\ packed = <<>>
    /\ message = <<>>
    /\ marked = NoMark
    /\ NoStream

NextFields == PackFields

SpecFields == InitFields /\ [][NextFields]_vars

---------------------------------------------------------------------------
(* The claim about field packing, checked under SpecFields *)

RECURSIVE SumSize(_)
SumSize(fs) == IF fs = <<>> THEN 0 ELSE Size(Head(fs)) + SumSize(Tail(fs))

\* the visual width of fields joined by separators
Width(fs) == SumSize(fs) + SepWidth * (Len(fs) - 1)

\* the fields of all printed lines, in order
RECURSIVE Flatten(_)
Flatten(ls) == IF ls = <<>> THEN <<>> ELSE Head(ls).fs \o Flatten(Tail(ls))

\* the number of fields on the lines before line j
RECURSIVE Before(_, _)
Before(ls, j) == IF j = 1 THEN 0 ELSE Before(ls, j - 1) + Len(ls[j - 1].fs)

\* C9 as claimed: every printed field line is at most 88 columns wide, but
\* for a line of one field that is wider by itself; and a field starts a new
\* line exactly when the line has content and the field with its separator
\* would exceed 88 columns.
C9_AsClaimed ==
    pc = "packed" =>
        /\ Flatten(packed) = fields
        /\ \A j \in 1..Len(packed) :
               \/ Width(packed[j].fs) <= LineBudget
               \/ Len(packed[j].fs) = 1 /\ Size(packed[j].fs[1]) > LineBudget
        /\ \A j \in 1..Len(packed) : \A n \in 1..Len(packed[j].fs) :
               LET sofar == SubSeq(packed[j].fs, 1, n)
                   next  == fields[Before(packed, j) + n + 1]
               IN  Before(packed, j) + n < Len(fields) =>
                       ((n = Len(packed[j].fs)) <=>
                            (Width(sofar) + SepWidth + Size(next) > LineBudget))

---------------------------------------------------------------------------
(* SpecHighlight: Highlights.Apply on the messages and terms over HlChars  *)

\* the letters of messages and terms
HlChars == {"a", "b"}

\* the terms of the -f option: not empty, of up to MaxTermLen letters
Terms == StringsUpTo(HlChars, MaxTermLen) \ {<<>>}

InitHighlight ==
    /\ pc = "highlight"
    /\ args = <<>>
    /\ filters = <<>>
    /\ strictMode = FALSE
    /\ highlights \in StringsUpTo(Terms, MaxTerms)
    /\ colors \in BOOLEAN
    /\ line = RawLine(<<>>)
    /\ matched = FALSE
    /\ didRender = FALSE
    /\ out = <<>>
    /\ fields = <<>>
    /\ packed = <<>>
    /\ message \in StringsUpTo(HlChars, MaxMsgLen)
    /\ marked = NoMark
    /\ NoStream

NextHighlight == Highlight

SpecHighlight == InitHighlight /\ [][NextHighlight]_vars

---------------------------------------------------------------------------
(* The claim about Highlights.Apply, checked under SpecHighlight *)

\* some term of the set occurs in the original message
SomeTermOccurs ==
    \E i \in 1..Len(highlights) : Contains(message, highlights[i])

\* the start positions of the occurrences of t in s taken from position p on,
\* leftmost first and none overlapping another
RECURSIVE Leftmost(_, _, _)
Leftmost(s, t, p) ==
    LET next == {q \in p..Len(s) : At(s, t, q)}
    IN  IF next = {} THEN {}
        ELSE LET q == CHOOSE q \in next : \A r \in next : q <= r
             IN  {q} \cup Leftmost(s, t, q + Len(t))

\* what position i of s becomes when the occurrences starting at G are
\* wrapped: the wrapped term at a start, nothing inside an occurrence, the
\* character elsewhere
Piece(s, t, G, i) ==
    IF i \in G THEN Emphasis(t, colors)
    ELSE IF \E g \in G : g < i /\ i < g + Len(t) THEN <<>>
    ELSE <<s[i]>>

\* the pieces of the positions lo..hi, joined
RECURSIVE Pieces(_, _, _, _, _)
Pieces(s, t, G, lo, hi) ==
    IF lo > hi THEN <<>>
    ELSE IF lo = hi THEN Piece(s, t, G, lo)
    ELSE LET mid == (lo + hi) \div 2
         IN  Pieces(s, t, G, lo, mid) \o Pieces(s, t, G, mid + 1, hi)

\* s with every leftmost, not overlapping occurrence of t wrapped
WrapLeftmost(s, t) == Pieces(s, t, Leftmost(s, t, 1), 1, Len(s))

\* the message as marked by the first i terms of the set
Stage(i) == Apply(SubSeq(highlights, 1, i), message, colors).msg

RECURSIVE Scan(_, _)
Scan(r, depth) ==
    IF r = <<>> THEN <<>>
    ELSE IF At(r, MarkOpen, 1)
         THEN Scan(From(r, Len(MarkOpen) + 1), depth + 1)
    ELSE IF At(r, MarkClose, 1)
         THEN Scan(From(r, Len(MarkClose) + 1), depth - 1)
    ELSE <<[c |-> r[1], d |-> depth]>> \o Scan(Tail(r), depth)

\* the occurrence of t at position p of the original message lies inside
\* markup in the marked message
Wrapped(p, t) ==
    LET sc == Scan(marked.msg, 0)
    IN  /\ Len(sc) = Len(message)
        /\ \A k \in 1..Len(sc) : sc[k].c = message[k]
        /\ \A k \in p..(p + Len(t) - 1) : sc[k].d >= 1

---------------------------------------------------------------------------
(* SpecMarkup: Highlights.Apply with terms that are characters of the     *)
(* escape sequences fmtc writes for the emphasis tags                      *)

\* a letter, and two characters of the escape sequences
MarkupChars == {"a", "1", "m"}

\* terms of one character
MarkupTerms == {<<c>> : c \in MarkupChars}

InitMarkup ==
    /\ pc = "highlight"
    /\ args = <<>>
    /\ filters = <<>>
    /\ strictMode = FALSE
    /\ highlights \in StringsUpTo(MarkupTerms, MaxMarkTerms)
    /\ colors \in BOOLEAN
    /\ line = RawLine(<<>>)
    /\ matched = FALSE
    /\ didRender = FALSE
    /\ out = <<>>
    /\ fields = <<>>
    /\ packed = <<>>
    /\ message \in StringsUpTo(MarkupChars, MaxMsgLen)
    /\ marked = NoMark
    /\ NoStream

NextMarkup == Highlight

SpecMarkup == InitMarkup /\ [][NextMarkup]_vars

---------------------------------------------------------------------------
(* The claim about markup, checked under SpecMarkup *)

\* the text without the opening and closing escape sequences found in it
\* (in one pass, the closing ones first)
UnmarkCloseFirst(s) == ReplaceAll(ReplaceAll(s, MarkClose, <<>>), MarkOpen, <<>>)

\* the same, the opening ones first
UnmarkOpenFirst(s) == ReplaceAll(ReplaceAll(s, MarkOpen, <<>>), MarkClose, <<>>)

\* C16 as claimed: Apply only adds markup around text of the message, so the
\* result without the opening and closing markup is the original message,
\* whatever the terms and their order.
C16_AsClaimed ==
    pc = "marked" =>
        \/ UnmarkCloseFirst(marked.msg) = message
        \/ UnmarkOpenFirst(marked.msg) = message

---------------------------------------------------------------------------
(* cli.go: the read loops readData and readDataStream                      *)

LF == "\n"
CR == "\r"

\* unicode.IsSpace, for the characters of the model
WhiteSpace == {" ", "\t", LF, CR}

\* strings.TrimRight(s, cutset)
RECURSIVE TrimRight(_, _)
TrimRight(s, cutset) ==
    IF s # <<>> /\ s[Len(s)] \in cutset
    THEN TrimRight(SubSeq(s, 1, Len(s) - 1), cutset)
    ELSE s

\* strings.TrimLeft(s, cutset)
RECURSIVE TrimLeft(_, _)
TrimLeft(s, cutset) ==
    IF s # <<>> /\ s[1] \in cutset THEN TrimLeft(Tail(s), cutset) ELSE s

\* strings.TrimSpace(s)
TrimSpace(s) == TrimLeft(TrimRight(s, WhiteSpace), WhiteSpace)

\* the position of the first quote behind position i, Len(s) + 1 if none
NextQuote(s, i) ==
    IF \E j \in (i + 1)..Len(s) : s[j] = "\""
    THEN CHOOSE j \in (i + 1)..Len(s) :
             s[j] = "\"" /\ \A n \in (i + 1)..(j - 1) : s[n] # "\""
    ELSE Len(s) + 1

\* json.ForEach on an object of string members: the members from position i,
\* each a key in quotes, a colon and a value in quotes, with commas between
RECURSIVE ParseMembers(_, _)
ParseMembers(s, i) ==
    IF i > Len(s) \/ s[i] # "\"" THEN <<>>
    ELSE LET keyEnd == NextQuote(s, i)
             valEnd == NextQuote(s, keyEnd + 2)
         IN  IF keyEnd + 2 > Len(s) \/ s[keyEnd + 1] # ":"
                \/ s[keyEnd + 2] # "\"" \/ valEnd > Len(s)
             THEN <<>>
             ELSE <<[key |-> SubSeq(s, i + 1, keyEnd - 1),
                     val |-> JStr(SubSeq(s, keyEnd + 3, valEnd - 1))]>>
                  \o (IF valEnd + 1 <= Len(s) /\ s[valEnd + 1] = ","
                      THEN ParseMembers(s, valEnd + 2)
                      ELSE <<>>)

\* gjson.Parse(line) and json.IsObject(): white space before the value is
\* skipped, and a value that starts with a brace is an object
ParseLine(text) ==
    LET t == TrimLeft(text, WhiteSpace)
    IN  IF t # <<>> /\ t[1] = "{" THEN ObjLine(ParseMembers(t, 2))
        ELSE RawLine(text)

\* r.ReadString('\n') on the bytes not yet consumed: the line with its
\* delimiter, or all of the bytes together with the error io.EOF
ReadString(unread) ==
    LET i == IndexOf(unread, <<LF>>)
    IN  IF i = 0 THEN [line |-> unread, err |-> TRUE]
        ELSE [line |-> SubSeq(unread, 1, i), err |-> FALSE]

\* bufio.Scanner with ScanLines: the lines without their end-of-line marker,
\* the last one also when it has none
RECURSIVE ScanLines(_)
ScanLines(src) ==
    LET i == IndexOf(src, <<LF>>)
    IN  IF src = <<>> THEN <<>>
        ELSE IF i = 0 THEN <<TrimRight(src, {CR})>>
        ELSE <<IF i > 1 /\ src[i - 1] = CR THEN SubSeq(src, 1, i - 2)
               ELSE SubSeq(src, 1, i - 1)>>
             \o ScanLines(From(src, i + 1))

\* the loop of readData: the texts it hands to renderLine
RECURSIVE readDataTexts(_)
readDataTexts(ls) ==
    IF ls = <<>> THEN <<>>
    ELSE LET data == TrimSpace(Head(ls))
         IN  (IF data = <<>> THEN <<>> ELSE <<data>>) \o readDataTexts(Tail(ls))

\* what a loop printed for the texts it handed to renderLine
RECURSIVE RenderAll(_, _, _, _, _)
RenderAll(texts, fltrs, strict, hl, withColors) ==
    IF texts = <<>> THEN <<>>
    ELSE (IF renderLine(ParseLine(Head(texts)), fltrs, strict, hl, withColors).ret
          THEN <<"record">> ELSE <<>>)
         \o RenderAll(Tail(texts), fltrs, strict, hl, withColors)

\* 30*time.Second
IdleInterval == 30

\* the bytes the reader has not consumed
Unread == From(source, rpos + 1)

\* the settings and results the read loops leave alone
setup == <<args, filters, strictMode, highlights, colors, matched, fields,
           packed, message, marked>>

\* the texts readData hands to renderLine for the source as it is
DataTexts == readDataTexts(ScanLines(source))

\* the last renderLine call of readData
LastRendered ==
    renderLine(ParseLine(DataTexts[Len(DataTexts)]), filters, strictMode,
               highlights, colors)

\* readData(source, filters): the whole loop over the source as it is
ReadData ==
    /\ pc = "parsed"
    /\ ~follow
    /\ handed' = DataTexts
    /\ printed' = RenderAll(DataTexts, filters, strictMode, highlights, colors)
    /\ IF DataTexts = <<>> THEN UNCHANGED <<line, didRender, out>>
       ELSE /\ line' = ParseLine(DataTexts[Len(DataTexts)])
            /\ didRender' = LastRendered.ret
            /\ out' = LastRendered.out
    /\ rpos' = Len(source)
    /\ pc' = "done"
    /\ UNCHANGED <<follow, source, pending, closed, now, lastPrint>>
    /\ UNCHANGED setup

\* readDataStream(source, filters): lastPrint := time.Now()
StartStream ==
    /\ pc = "parsed"
    /\ follow
    /\ lastPrint' = now
    /\ pc' = "read"
    /\ UNCHANGED <<follow, source, pending, closed, rpos, now, handed, printed>>
    /\ UNCHANGED <<line, didRender, out>>
    /\ UNCHANGED setup

\* r.ReadString fails: the bytes it has read are dropped with the error
ReadFail ==
    /\ pc = "read"
    /\ ReadString(Unread).err
    /\ rpos' = Len(source)
    /\ pc' = "sleep"
    /\ UNCHANGED <<follow, source, pending, closed, now, lastPrint, handed,
                   printed>>
    /\ UNCHANGED <<line, didRender, out>>
    /\ UNCHANGED setup

\* time.Sleep(50 * time.Millisecond); continue
Sleep ==
    /\ pc = "sleep"
    /\ pc' = "read"
    /\ UNCHANGED streamVars
    /\ UNCHANGED <<line, didRender, out>>
    /\ UNCHANGED setup

\* line = strings.TrimRight(line, "\r\n") of the line r.ReadString returns
LineRead == TrimRight(ReadString(Unread).line, {CR, LF})

\* renderLine(line, filters) of that line
LineRendered(text) ==
    renderLine(ParseLine(text), filters, strictMode, highlights, colors)

\* the read loop with lastPrint set to the time of every line read
ReadLineResetAlways ==
    /\ pc = "read"
    /\ ~ReadString(Unread).err
    /\ \E text \in {LineRead} : \E r \in {LineRendered(text)} :
           /\ rpos' = rpos + Len(ReadString(Unread).line)
           /\ handed' = Append(handed, text)
           /\ printed' = printed
                  \o (IF now - lastPrint > IdleInterval
                      THEN <<"separator">> ELSE <<>>)
                  \o (IF r.ret THEN <<"record">> ELSE <<>>)
           /\ line' = ParseLine(text)
           /\ didRender' = r.ret
           /\ out' = r.out
           /\ lastPrint' = now
    /\ pc' = "read"
    /\ UNCHANGED <<follow, source, pending, closed, now>>
    /\ UNCHANGED setup

\* r.ReadString returns a line: the separator when the loop was idle, then
\* renderLine, and lastPrint is set when the line rendered
ReadLine ==
    /\ pc = "read"
    /\ ~ReadString(Unread).err
    /\ \E text \in {LineRead} : \E r \in {LineRendered(text)} :
           /\ rpos' = rpos + Len(ReadString(Unread).line)
           /\ handed' = Append(handed, text)
           /\ printed' = printed
                  \o (IF now - lastPrint > IdleInterval
                      THEN <<"separator">> ELSE <<>>)
                  \o (IF r.ret THEN <<"record">> ELSE <<>>)
           /\ line' = ParseLine(text)
           /\ didRender' = r.ret
           /\ out' = r.out
           /\ lastPrint' = IF r.ret THEN now ELSE lastPrint
    /\ pc' = "read"
    /\ UNCHANGED <<follow, source, pending, closed, now>>
    /\ UNCHANGED setup

---------------------------------------------------------------------------
(* The source: a writer appends lines to it, whole or in two pieces, and   *)
(* may close it; time passes                                               *)

\* the text of the object {"k":"v"}
ObjText(k, v) ==
    <<"{", "\"">> \o k \o <<"\"", ":", "\"">> \o v \o <<"\"", "}">>

\* the lines written: a blank line, a text with a space before it, and
\* records with the messages a and b
LineTexts ==
    {<<>>, <<" ", "a">>, ObjText(MsgKey, <<"a">>), ObjText(MsgKey, <<"b">>)}

\* number of lines written or begun
RECURSIVE CountLF(_)
CountLF(s) ==
    IF s = <<>> THEN 0
    ELSE (IF Head(s) = LF THEN 1 ELSE 0) + CountLF(Tail(s))

CanWrite == ~closed /\ pending = <<>> /\ CountLF(source) < MaxLines

\* the writer appends a whole line
WriteLine ==
    /\ CanWrite
    /\ \E t \in LineTexts : source' = source \o t \o <<LF>>
    /\ UNCHANGED <<follow, pending, closed, rpos, now, lastPrint, handed,
                   printed>>
    /\ UNCHANGED <<pc, line, didRender, out>>
    /\ UNCHANGED setup

\* the writer appends the first bytes of a line
WritePiece ==
    /\ CanWrite
    /\ \E t \in LineTexts : \E k \in 1..Len(t) :
           /\ source' = source \o SubSeq(t, 1, k)
           /\ pending' = From(t, k + 1) \o <<LF>>
    /\ UNCHANGED <<follow, closed, rpos, now, lastPrint, handed, printed>>
    /\ UNCHANGED <<pc, line, didRender, out>>
    /\ UNCHANGED setup

\* the writer appends the rest of the line
WriteRest ==
    /\ ~closed
    /\ pending # <<>>
    /\ source' = source \o pending
    /\ pending' = <<>>
    /\ UNCHANGED <<follow, closed, rpos, now, lastPrint, handed, printed>>
    /\ UNCHANGED <<pc, line, didRender, out>>
    /\ UNCHANGED setup

\* the source is closed for good
Close ==
    /\ ~closed
    /\ pending = <<>>
    /\ closed' = TRUE
    /\ UNCHANGED <<follow, source, pending, rpos, now, lastPrint, handed,
                   printed>>
    /\ UNCHANGED <<pc, line, didRender, out>>
    /\ UNCHANGED setup

\* time passes: half the idle interval, or a second more than it
Tick ==
    /\ \E d \in {IdleInterval \div 2, IdleInterval + 1} :
           /\ now + d <= MaxTime
           /\ now' = now + d
    /\ UNCHANGED <<follow, source, pending, closed, rpos, lastPrint, handed,
                   printed>>
    /\ UNCHANGED <<pc, line, didRender, out>>
    /\ UNCHANGED setup

---------------------------------------------------------------------------
(* SpecFollow: both read loops on a source of whole lines, with the clock  *)

\* no filter, and the bare token a
FollowArgLists == {<<>>, << <<"a">> >>}

InitFollow ==
    /\ pc = "start"
    /\ args \in FollowArgLists
    /\ filters = <<>>
    /\ strictMode \in BOOLEAN
    /\ highlights = <<>>
    /\ colors = TRUE
    /\ line = RawLine(<<>>)
    /\ matched = FALSE
    /\ didRender = FALSE
    /\ out = <<>>
    /\ fields = <<>>
    /\ packed = <<>>
    /\ message = <<>>
    /\ marked = [msg |-> <<>>, found |-> FALSE]
    /\ follow \in BOOLEAN
    /\ source = <<>>
    /\ pending = <<>>
    /\ closed = FALSE
    /\ rpos = 0
    /\ now = 0
    /\ lastPrint = 0
    /\ handed = <<>>
    /\ printed = <<>>

NextFollow ==
    \/ ParseArgs \/ ReadData \/ StartStream \/ ReadFail \/ Sleep \/ ReadLine
    \/ WriteLine \/ Close \/ Tick

SpecFollow == InitFollow /\ [][NextFollow]_vars

---------------------------------------------------------------------------
(* Claims about follow mode, checked under SpecFollow *)

\* the step hands a line to renderLine
LineProcessed == Len(handed') = Len(handed) + 1

\* the step prints a separator
SeparatorPrinted ==
    /\ Len(printed') > Len(printed)
    /\ printed'[Len(printed) + 1] = "separator"

\* C11: in the loop of follow mode lastPrint is set, to the time of the step,
\* by the steps that hand a line to renderLine and get true, and by no other
\* step (a failed read, a line that is dropped, the sleep); a separator is
\* printed only by a step that reads a line more than the idle interval after
\* lastPrint.
C11_TimerResetOnlyOnRender ==
    [][(follow /\ pc \in {"read", "sleep"}) =>
           /\ (LineProcessed /\ didRender') => lastPrint' = now
           /\ ~(LineProcessed /\ didRender') => lastPrint' = lastPrint
           /\ SeparatorPrinted =>
                  (LineProcessed /\ now - lastPrint > IdleInterval)]_vars

\* a line rendered, and more than the idle interval later a line that is
\* dropped: the separator is printed and lastPrint stays
C11_Witness ==
    /\ follow
    /\ pc = "read"
    /\ Len(handed) = 2
    /\ printed = <<"record", "separator">>
    /\ ~didRender
    /\ now - lastPrint > IdleInterval

\* SpecFollowFair: follow mode, the program being scheduled as long as it can
\* take a step
InitFollowFair == InitFollow /\ follow

\* the steps of the program in follow mode
FollowLoop == ParseArgs \/ StartStream \/ ReadFail \/ Sleep \/ ReadLine

NextFollowFair == FollowLoop \/ WriteLine \/ Close \/ Tick

SpecFollowFair ==
    InitFollowFair /\ [][NextFollowFair]_vars /\ WF_vars(FollowLoop)

\* C12 as claimed: once the source is closed for good, the loop of follow mode
\* stops.
C12_AsClaimed == (follow /\ closed) ~> (pc = "return")

\* C14 as claimed: no two separators are printed without a rendered line
\* between them.
C14_AsClaimed ==
    \A i \in 1..(Len(printed) - 1) :
        ~(printed[i] = "separator" /\ printed[i + 1] = "separator")

\* printed, without the separators
Records(p) == SelectSeq(p, LAMBDA e : e = "record")

\* C17 as claimed: when follow mode has consumed a source of whole lines, it
\* has handed to renderLine the texts that readData hands over for the same
\* source, and rendered the same records.
C17_AsClaimed ==
    (follow /\ pc \in {"read", "sleep"} /\ rpos = Len(source)) =>
        /\ handed = readDataTexts(ScanLines(source))
        /\ Records(printed) =
               RenderAll(readDataTexts(ScanLines(source)), filters, strictMode,
                         highlights, colors)

---------------------------------------------------------------------------
(* SpecTail: follow mode on a source whose lines may arrive in two pieces  *)

InitTail == InitFollow /\ follow /\ args = <<>> /\ ~strictMode

NextTail ==
    \/ ParseArgs \/ StartStream \/ ReadFail \/ Sleep \/ ReadLine
    \/ WriteLine \/ WritePiece \/ WriteRest \/ Close

SpecTail == InitTail /\ [][NextTail]_vars

\* the texts of the lines of the source that have their newline
RECURSIVE CompleteLines(_)
CompleteLines(src) ==
    LET i == IndexOf(src, <<LF>>)
    IN  IF i = 0 THEN <<>>
        ELSE <<TrimRight(SubSeq(src, 1, i), {CR, LF})>>
             \o CompleteLines(From(src, i + 1))

IsPrefix(a, b) == Len(a) <= Len(b) /\ SubSeq(b, 1, Len(a)) = a

\* C13 as claimed: the texts handed to renderLine are the complete lines of
\* the source, each once and in order, and all of them once the reader has
\* consumed a source that ends with a complete line.
C13_AsClaimed ==
    /\ IsPrefix(handed, CompleteLines(source))
    /\ (pc = "sleep" /\ rpos = Len(source) /\ pending = <<>>) =>
           handed = CompleteLines(source)


====
